---------------------------- MODULE Spec2Model ----------------------------
(***************************************************************************)
(* A model of the delivery client: the download scheduler of               *)
(* dds_cli/__main__.py (get_data), the per-file protect / restore          *)
(* pipeline of code_api/dp_cli.py, its put, and the user commands of       *)
(* dds_cli/__main__.py.                                                    *)
(***************************************************************************)
EXTENDS Integers, Sequences, FiniteSets, TLC

(***************************************************************************)
(* Bounds of the model.                                                    *)
(***************************************************************************)
MaxFiles == 4

MaxThreads == 3

\* The longest source file, in bytes.
MaxFileLen == 7

\* chunk_size, and crypt4gh's plaintext segment size and span: 65536 scaled down.
ChunkSize == 3

\* The number of values of one byte: 256 scaled down.
ByteMod == 8

\* The most paths given to put.
MaxPaths == 3

(***************************************************************************)
(* State of get_data.                                                      *)
(***************************************************************************)
VARIABLES
    num_threads,        \* the --num-threads option
    break_on_fail,      \* the --break-on-fail flag, handed to DataGetter
    cancel_requested,   \* the shared cancellation flag of the design
    data,               \* getter.filehandler.data: the work list, in order
    iterator,           \* how many items of the work list `iterator` has yielded
    submitted,          \* texec: the file of every future submitted, in order
    fut_state,          \* texec: each future's state or outcome
    download_threads,   \* the dict future -> file, as a set of <<future, file>>
    ddone,              \* the futures `wait` returned that are still to be handled
    new_tasks,          \* the credit counted by the current round
    left,               \* what the running islice may still yield
    advanced,           \* progress.advance(task_dwnld) calls so far
    pc                  \* the coordinator's position in get_data

schedVars == <<num_threads, break_on_fail, cancel_requested, data, iterator, submitted, fut_state,
               download_threads, ddone, new_tasks, left, advanced, pc>>

(***************************************************************************)
(* State of one run of a protect pipeline of dp_cli.py and of the          *)
(* try_decryption that follows it in process_file.                         *)
(***************************************************************************)
VARIABLES
    pmode,              \* "hchEh": hash_compress_hash_encrypt_hash, "heh": hash_encrypt_hash,
                        \* "hch": hash_compress_hash, "gen_hmac": gen_hmac
    src,                \* the bytes of `file`
    facility_sec,       \* facility_kp.sec
    researcher_sec,     \* researcher_kp.sec
    session_key,        \* generate_header: os.urandom(32)
    header_bytes,       \* generate_header: the serialized header
    header_count,       \* calls of generate_header so far
    pos,                \* chunks taken from chunk_stream so far
    nonces,             \* the nonce os.urandom(12) gave for each segment
    ef,                 \* the writes made to encrypted_file, in order
    cf,                 \* the writes made to compressed_file, in order
    hash_original,      \* the accumulators handed to the pipeline
    hash_compressed,
    hash_encrypted,
    ret,                \* what the pipeline returned
    df,                 \* the bytes of f"{encrypted_file}.decrypted"
    hash_decrypted,     \* try_decryption's digest
    error,              \* the exception that ended try_decryption
    ppc                 \* the position in the pipeline

pipeVars == <<pmode, src, facility_sec, researcher_sec, session_key, header_bytes,
              header_count, pos, nonces, ef, cf, hash_original, hash_compressed,
              hash_encrypted, ret, df, hash_decrypted, error, ppc>>

(***************************************************************************)
(* State of the processing loop of put of dp_cli.py.                       *)
(***************************************************************************)
VARIABLES
    config,             \* the --config option: what the file it names is
    username,           \* whether --username, --password, --project are given
    password,
    project,
    pathfile,           \* the --pathfile option: what the file it names is
    user_info,          \* what verify_user_credentials returned
    user_id,            \* what check_access returned
    dirs_created,       \* what create_directories returned
    temp_dir,           \* the temporary directory on disk
    put_data,           \* `data`: what each path given to put is on disk
    sensitive,          \* whether the delivery is sensitive
    keygen_fails,       \* whether keys.c4gh.generate fails in this run
    path_idx,           \* the paths `for path in data` has taken so far
    upload_path,        \* the dict upload_path: the entries assigned, in order
    processed,          \* what each call of process_file did, in order
    put_pc              \* the position in put, or the exception that ended it

putVars == <<config, username, password, project, pathfile, user_info, user_id,
             dirs_created, temp_dir, put_data, sensitive, keygen_fails, path_idx,
             upload_path, processed, put_pc>>

(***************************************************************************)
(* State of one run of a `dds user` command of __main__.py.                *)
(***************************************************************************)
VARIABLES
    command,            \* the command run: add_user, delete_user, activate_user, deactivate_user
    no_prompt,          \* click_ctx["NO_PROMPT"], the --no-prompt flag of dds_main
    email,              \* the email argument, "None" when not given
    role,               \* add_user: --role
    add_project,        \* add_user: --project, "None" when not given
    self_flag,          \* delete_user: --self
    is_invite,          \* delete_user: --is-invite
    asked,              \* whether rich.prompt.Confirm.ask was called
    answer,             \* what the user answered
    invoked,            \* the operations invoked on the AccountManager, in order
    stderr,             \* what was logged as an error
    exit_status         \* how the command ended

userVars == <<command, no_prompt, email, role, add_project, self_flag, is_invite, asked,
              answer, invoked, stderr, exit_status>>

(***************************************************************************)
(* State of the hash-and-compress loop in the body of process_file, next   *)
(* to src, pos, cf and the two accumulators of the pipelines.              *)
(***************************************************************************)
VARIABLES
    compressed_format,  \* file_type: the extension is in COMPRESSED_FORMATS
    is_compressed,      \* process_file's is_compressed
    latest_path         \* process_file's latest_path

inlineVars == <<compressed_format, is_compressed, latest_path>>

\* What the last call of _encrypt_segment yielded: "segment" (the encrypted
\* data), "error" (the tuple of its except clause), or "none".
VARIABLE yielded

vars == <<schedVars, pipeVars, putVars, userVars, inlineVars, yielded>>

Min(a, b) == IF a < b THEN a ELSE b

\* The outcomes of dfut.result(): the value download_and_verify returned
\* (True: "ok", False: "fail"), BrokenExecutor, or any other exception.
Outcomes == {"ok", "fail", "broken", "raise"}

\* The futures held in download_threads (its keys).
Outstanding == {e[1] : e \in download_threads}

\* The futures of download_threads that have completed.
CompletedOldestOnly ==
    {f \in Outstanding : fut_state[f] # "running" /\ \A g \in Outstanding : f <= g}

Completed == {f \in Outstanding : fut_state[f] # "running"}

\* dfut.result() returned a value (True or False): the iteration goes on to
\* new_tasks += 1 and progress.advance.
Counted(res) == res \in {"ok", "fail"}

\* The number of futures the first islice schedules.
FirstBatchPlusOne == num_threads + 1

FirstBatch == num_threads

\* next(iterator): the next file of the work list.
NextFileAgain == data[IF iterator = 0 THEN 1 ELSE iterator]

NextFile == data[iterator + 1]

\* texec.submit(getter.download_and_verify, file=..., progress=progress) and
\* the assignment of the new future to download_threads.
Submit ==
    /\ submitted' = Append(submitted, NextFile)
    /\ fut_state' = Append(fut_state, "running")
    /\ download_threads' = download_threads \cup {<<Len(submitted) + 1, NextFile>>}
    /\ iterator' = iterator + 1

SchedInit ==
    /\ num_threads \in 1..MaxThreads
    /\ break_on_fail \in BOOLEAN
    /\ cancel_requested = FALSE
    /\ data \in {[i \in 1..m |-> i] : m \in 0..MaxFiles}
    /\ iterator = 0
    /\ submitted = <<>>
    /\ fut_state = <<>>
    /\ download_threads = {}
    /\ ddone = {}
    /\ new_tasks = 0
    /\ left = FirstBatch
    /\ advanced = 0
    /\ pc = "first"

\* for file in itertools.islice(iterator, num_threads): one iteration.
SubmitFirst ==
    /\ pc = "first"
    /\ left > 0
    /\ iterator < Len(data)
    /\ Submit
    /\ left' = left - 1
    /\ UNCHANGED <<num_threads, break_on_fail, cancel_requested, data, ddone, new_tasks, advanced, pc>>
    /\ UNCHANGED pipeVars
    /\ UNCHANGED putVars
    /\ UNCHANGED userVars
    /\ UNCHANGED inlineVars
    /\ UNCHANGED yielded

\* The first islice is exhausted.
FirstDone ==
    /\ pc = "first"
    /\ (left = 0 \/ iterator = Len(data))
    /\ pc' = "wait"
    /\ UNCHANGED <<num_threads, break_on_fail, cancel_requested, data, iterator, submitted, fut_state,
                   download_threads, ddone, new_tasks, left, advanced>>
    /\ UNCHANGED pipeVars
    /\ UNCHANGED putVars
    /\ UNCHANGED userVars
    /\ UNCHANGED inlineVars
    /\ UNCHANGED yielded

\* while download_threads: the dict is empty, the loop and get_data end.
LoopExit ==
    /\ pc = "wait"
    /\ download_threads = {}
    /\ pc' = "done"
    /\ UNCHANGED <<num_threads, break_on_fail, cancel_requested, data, iterator, submitted, fut_state,
                   download_threads, ddone, new_tasks, left, advanced>>
    /\ UNCHANGED pipeVars
    /\ UNCHANGED putVars
    /\ UNCHANGED userVars
    /\ UNCHANGED inlineVars
    /\ UNCHANGED yielded

\* concurrent.futures.wait(download_threads, return_when=FIRST_COMPLETED):
\* returns once a future has completed, with every completed one; new_tasks = 0.
Wait ==
    /\ pc = "wait"
    /\ download_threads # {}
    /\ Completed # {}
    /\ ddone' = Completed
    /\ new_tasks' = 0
    /\ pc' = "collect"
    /\ UNCHANGED <<num_threads, break_on_fail, cancel_requested, data, iterator, submitted, fut_state,
                   download_threads, left, advanced>>
    /\ UNCHANGED pipeVars
    /\ UNCHANGED putVars
    /\ UNCHANGED userVars
    /\ UNCHANGED inlineVars
    /\ UNCHANGED yielded

\* for dfut in ddone: pop it; its result is a value: count it and advance.
CollectResult ==
    /\ pc = "collect"
    /\ \E f \in ddone :
        /\ Counted(fut_state[f])
        /\ download_threads' = {e \in download_threads : e[1] # f}
        /\ ddone' = ddone \ {f}
    /\ new_tasks' = new_tasks + 1
    /\ advanced' = advanced + 1
    /\ UNCHANGED <<num_threads, break_on_fail, cancel_requested, data, iterator, submitted, fut_state,
                   left, pc>>
    /\ UNCHANGED pipeVars
    /\ UNCHANGED putVars
    /\ UNCHANGED userVars
    /\ UNCHANGED inlineVars
    /\ UNCHANGED yielded

\* for dfut in ddone: pop it; its result raises BrokenExecutor: continue.
CollectBroken ==
    /\ pc = "collect"
    /\ \E f \in ddone :
        /\ fut_state[f] = "broken"
        /\ download_threads' = {e \in download_threads : e[1] # f}
        /\ ddone' = ddone \ {f}
    /\ UNCHANGED <<num_threads, break_on_fail, cancel_requested, data, iterator, submitted, fut_state,
                   new_tasks, left, advanced, pc>>
    /\ UNCHANGED pipeVars
    /\ UNCHANGED putVars
    /\ UNCHANGED userVars
    /\ UNCHANGED inlineVars
    /\ UNCHANGED yielded

\* for dfut in ddone: pop it; its result raises another exception, which
\* leaves the loop and the with blocks; get_data ends in its except clause.
CollectRaise ==
    /\ pc = "collect"
    /\ \E f \in ddone :
        /\ fut_state[f] = "raise"
        /\ download_threads' = {e \in download_threads : e[1] # f}
        /\ ddone' = ddone \ {f}
    /\ pc' = "raised"
    /\ UNCHANGED <<num_threads, break_on_fail, cancel_requested, data, iterator, submitted, fut_state,
                   new_tasks, left, advanced>>
    /\ UNCHANGED pipeVars
    /\ UNCHANGED putVars
    /\ UNCHANGED userVars
    /\ UNCHANGED inlineVars
    /\ UNCHANGED yielded

\* The for loop over ddone is over: islice(iterator, new_tasks) starts.
CollectDone ==
    /\ pc = "collect"
    /\ ddone = {}
    /\ left' = new_tasks
    /\ pc' = "schedule"
    /\ UNCHANGED <<num_threads, break_on_fail, cancel_requested, data, iterator, submitted, fut_state,
                   download_threads, ddone, new_tasks, advanced>>
    /\ UNCHANGED pipeVars
    /\ UNCHANGED putVars
    /\ UNCHANGED userVars
    /\ UNCHANGED inlineVars
    /\ UNCHANGED yielded

\* for next_file in itertools.islice(iterator, new_tasks): one iteration.
SubmitNext ==
    /\ pc = "schedule"
    /\ left > 0
    /\ iterator < Len(data)
    /\ Submit
    /\ left' = left - 1
    /\ UNCHANGED <<num_threads, break_on_fail, cancel_requested, data, ddone, new_tasks, advanced, pc>>
    /\ UNCHANGED pipeVars
    /\ UNCHANGED putVars
    /\ UNCHANGED userVars
    /\ UNCHANGED inlineVars
    /\ UNCHANGED yielded

\* The islice of the round is exhausted: back to the head of the while loop.
ScheduleDone ==
    /\ pc = "schedule"
    /\ (left = 0 \/ iterator = Len(data))
    /\ pc' = "wait"
    /\ UNCHANGED <<num_threads, break_on_fail, cancel_requested, data, iterator, submitted, fut_state,
                   download_threads, ddone, new_tasks, left, advanced>>
    /\ UNCHANGED pipeVars
    /\ UNCHANGED putVars
    /\ UNCHANGED userVars
    /\ UNCHANGED inlineVars
    /\ UNCHANGED yielded

\* A worker thread of texec ends getter.download_and_verify for one future.
DownloadEnds ==
    /\ \E f \in 1..Len(submitted) :
        /\ fut_state[f] = "running"
        /\ \E res \in Outcomes : fut_state' = [fut_state EXCEPT ![f] = res]
    /\ UNCHANGED <<num_threads, break_on_fail, cancel_requested, data, iterator, submitted,
                   download_threads, ddone, new_tasks, left, advanced, pc>>
    /\ UNCHANGED pipeVars
    /\ UNCHANGED putVars
    /\ UNCHANGED userVars
    /\ UNCHANGED inlineVars
    /\ UNCHANGED yielded

\* The operator asks for cancellation: the shared flag of the design is
\* raised. Nothing in get_data reads it.
RequestCancel ==
    /\ pc \in {"first", "wait", "collect", "schedule"}
    /\ ~cancel_requested
    /\ cancel_requested' = TRUE
    /\ UNCHANGED <<num_threads, break_on_fail, data, iterator, submitted, fut_state,
                   download_threads, ddone, new_tasks, left, advanced, pc>>
    /\ UNCHANGED pipeVars
    /\ UNCHANGED putVars
    /\ UNCHANGED userVars
    /\ UNCHANGED inlineVars
    /\ UNCHANGED yielded

(***************************************************************************)
(* The protect pipelines of dp_cli.py.                                     *)
(***************************************************************************)

\* The values of the bytes of a source file.
FileBytes == {0, 1}

\* The files: every byte string of at most MaxFileLen bytes.
Files == UNION {[1..n -> FileBytes] : n \in 0..MaxFileLen}

\* The private keys keys.c4gh.generate may produce.
KeySecrets == {1, 2}

\* The session keys and the nonces os.urandom may produce.
SessionKeys == {1, 3}

Nonces == {0, 1}

\* The concatenation of a sequence of byte strings.
RECURSIVE Flatten(_)
Flatten(ss) == IF ss = <<>> THEN <<>> ELSE Head(ss) \o Flatten(Tail(ss))

\* stream_chunks(file_handle, chunk_size): the number of chunks it yields,
\* and its i-th chunk: chunk_size bytes, the last one what is left.
NumChunks(f) == (Len(f) + ChunkSize - 1) \div ChunkSize

ChunkAt(f, i) == SubSeq(f, (i - 1) * ChunkSize + 1, Min(i * ChunkSize, Len(f)))

\* The length of the run of equal bytes at the head of c.
RECURSIVE RunLen(_)
RunLen(c) ==
    IF Len(c) >= 2 /\ c[2] = c[1] THEN 1 + RunLen(Tail(c)) ELSE Min(1, Len(c))

\* The deflate body: each run as its length and its byte.
RECURSIVE Deflate(_)
Deflate(c) ==
    IF c = <<>> THEN <<>>
    ELSE <<RunLen(c), c[1]>> \o Deflate(SubSeq(c, RunLen(c) + 1, Len(c)))

\* compress_chunk: gzip.compress(original_chunk), the deflated chunk
\* followed by the trailer holding the chunk's length.
compress_chunk(original_chunk) == Deflate(original_chunk) \o <<Len(original_chunk)>>

\* The toy Diffie-Hellman group of the key exchange.
RECURSIVE PowMod(_, _, _)
PowMod(b, e, m) == IF e = 0 THEN 1 ELSE (b * PowMod(b, e - 1, m)) % m

PublicKey(sec) == PowMod(2, sec, 11)

SharedSecret(sec, pub) == PowMod(pub, sec, 11)

\* generate_header: the header of one file, <<method, wrapped session key,
\* sender's public key>>.
generate_header(own_private_key, remote_public_key, skey) ==
    <<0, (skey + SharedSecret(own_private_key, remote_public_key)) % ByteMod,
      PublicKey(own_private_key)>>

\* ChaCha20-Poly1305: the key stream, the tag, cipher.encrypt(nonce, data, None)
\* (the ciphertext followed by its tag) and the decryption that checks the tag.
KeyStream(key, nonce, i) == (key + 2 * nonce + i) % ByteMod

RECURSIVE WeightedSum(_, _)
WeightedSum(s, i) == IF s = <<>> THEN 0 ELSE i * Head(s) + WeightedSum(Tail(s), i + 1)

Poly1305(key, nonce, ct) == (key + nonce + WeightedSum(ct, 1)) % ByteMod

CipherEncrypt(key, nonce, plain) ==
    LET ct == [i \in 1..Len(plain) |-> (plain[i] + KeyStream(key, nonce, i)) % ByteMod]
    IN  ct \o <<Poly1305(key, nonce, ct)>>

CipherDecrypt(key, nonce, enc) ==
    IF enc = <<>> THEN [ok |-> FALSE, plain |-> <<>>]
    ELSE LET ct == SubSeq(enc, 1, Len(enc) - 1)
         IN  IF enc[Len(enc)] # Poly1305(key, nonce, ct)
             THEN [ok |-> FALSE, plain |-> <<>>]
             ELSE [ok |-> TRUE,
                   plain |-> [i \in 1..Len(ct) |->
                                 (ct[i] + 2 * ByteMod - KeyStream(key, nonce, i)) % ByteMod]]

\* An HMAC accumulator, its update and its finalize: the digest of a key
\* and a byte stream stands for itself. update and finalize on a finalized
\* accumulator raise AlreadyFinalized and leave it as it is.
HmacKey == "Thisisakeythatshouldbechanged"

NewHmac == [fed |-> <<>>, finalized |-> FALSE, raised |-> FALSE]

HmacReset(h, bytes) ==
    IF h.finalized THEN [h EXCEPT !.raised = TRUE] ELSE [h EXCEPT !.fed = bytes]

HmacUpdate(h, bytes) ==
    IF h.finalized THEN [h EXCEPT !.raised = TRUE] ELSE [h EXCEPT !.fed = @ \o bytes]

HmacFinalizeTwice(h) == [h EXCEPT !.finalized = TRUE, !.raised = TRUE]

HmacFinalize(h) ==
    IF h.finalized THEN [h EXCEPT !.raised = TRUE] ELSE [h EXCEPT !.finalized = TRUE]

Digest(h) == <<HmacKey, h.fed>>

NoDigest == <<>>

\* The writes of the pipeline's opening to encrypted_file: ef.write(header_bytes).
HeaderWriteMissing(header) == <<>>

HeaderWrite(header) == <<[kind |-> "header", bytes |-> header]>>

\* _encrypt_segment: the writes it makes through `process`: the nonce, then
\* the encrypted data.
DataThenNonce(nonce, encrypted_data) ==
    <<[kind |-> "data", bytes |-> encrypted_data], [kind |-> "nonce", bytes |-> <<nonce>>]>>

EncryptSegmentWrites(nonce, encrypted_data) ==
    <<[kind |-> "nonce", bytes |-> <<nonce>>], [kind |-> "data", bytes |-> encrypted_data]>>

\* How cipher.encrypt ends in _encrypt_segment: it returns ("none"), or it
\* raises the EncryptionError that the except clause catches, or another
\* exception.
EncryptFailures == {"none", "EncryptionError", "other"}

\* _encrypt_segment when cipher.encrypt raises: the writes made through
\* `process` (none: both calls come after the encryption).
FailedSegmentWrites(nonce) == <<>>

\* _encrypt_segment: nonce = os.urandom(12): the nonce of a segment is the
\* value drawn for it, whatever was drawn before.
SegmentNonceStale(drawn, before) == IF before = <<>> THEN drawn ELSE before[1]

SegmentNonce(drawn, before) == drawn

\* The pipelines that encrypt, those that compress, and those that are handed
\* an accumulator for the original bytes.
Encrypts(mode) == mode \in {"hchEh", "heh"}

Compresses(mode) == mode \in {"hchEh", "hch"}

\* What the pipeline feeds to the compressed-stage accumulator for a chunk of
\* the source, and hands on (to _encrypt_segment, or to cf.write): the
\* compressed chunk, or where the source is not compressed the chunk itself.
SegmentPlain(mode, chunk) == IF Compresses(mode) THEN compress_chunk(chunk) ELSE chunk

\* The bytes of compressed_file.
CfBytes == Flatten(cf)

\* The bytes of encrypted_file.
EfBytes == Flatten([i \in 1..Len(ef) |-> ef[i].bytes])

(***************************************************************************)
(* crypt4gh's lib.decrypt, as try_decryption calls it.                     *)
(***************************************************************************)

\* header.deconstruct: the session key, when the header is whole and names
\* the expected sender.
Deconstruct(bytes, reader_sec, sender_pub) ==
    IF Len(bytes) < 3 \/ bytes[1] # 0 \/ bytes[3] # sender_pub
    THEN [ok |-> FALSE, key |-> 0]
    ELSE [ok |-> TRUE,
          key |-> (bytes[2] + 2 * ByteMod - SharedSecret(reader_sec, bytes[3])) % ByteMod]

\* body_decrypt: the body is cut into cipher segments of the fixed size
\* (nonce, ChunkSize bytes, tag); each is decrypted and appended to the
\* output; a segment that does not decrypt ends the call with an error.
RECURSIVE BodyDecrypt(_, _, _)
BodyDecrypt(body, key, out) ==
    IF body = <<>> THEN [ok |-> TRUE, out |-> out]
    ELSE LET n   == Min(ChunkSize + 2, Len(body))
             seg == SubSeq(body, 1, n)
             d   == CipherDecrypt(key, seg[1], Tail(seg))
         IN  IF n <= 2 \/ ~d.ok THEN [ok |-> FALSE, out |-> out]
             ELSE BodyDecrypt(SubSeq(body, n + 1, Len(body)), key, out \o d.plain)

\* limited_output(offset=0, limit=span): at most span bytes reach the output.
LimitedOutput(bytes, span) == SubSeq(bytes, 1, Min(span, Len(bytes)))

\* lib.decrypt(keys, infile, outfile, sender_pubkey, offset=0, span=65536).
LibDecrypt(bytes, reader_sec, sender_pub) ==
    LET h == Deconstruct(bytes, reader_sec, sender_pub)
    IN  IF ~h.ok THEN [ok |-> FALSE, out |-> <<>>]
        ELSE LET b == BodyDecrypt(SubSeq(bytes, 4, Len(bytes)), h.key, <<>>)
             IN  [ok |-> b.ok, out |-> LimitedOutput(b.out, ChunkSize)]

(***************************************************************************)
(* The pipeline's steps.                                                   *)
(***************************************************************************)

\* No pipeline runs: the state of the pipeline while get_data is studied.
PipeIdle ==
    /\ pmode = "none"
    /\ src = <<>>
    /\ facility_sec = 1
    /\ researcher_sec = 1
    /\ session_key = 0
    /\ header_bytes = <<>>
    /\ header_count = 0
    /\ pos = 0
    /\ nonces = <<>>
    /\ ef = <<>>
    /\ cf = <<>>
    /\ hash_original = NewHmac
    /\ hash_compressed = NewHmac
    /\ hash_encrypted = NewHmac
    /\ ret = [path |-> "", original |-> NoDigest, compressed |-> NoDigest,
              encrypted |-> NoDigest]
    /\ df = <<>>
    /\ hash_decrypted = NoDigest
    /\ error = "none"
    /\ yielded = "none"
    /\ ppc = "idle"

\* get_data does not run: the state of the scheduler while a pipeline is studied.
SchedIdle ==
    /\ num_threads = 1
    /\ break_on_fail = FALSE
    /\ cancel_requested = FALSE
    /\ data = <<>>
    /\ iterator = 0
    /\ submitted = <<>>
    /\ fut_state = <<>>
    /\ download_threads = {}
    /\ ddone = {}
    /\ new_tasks = 0
    /\ left = 0
    /\ advanced = 0
    /\ pc = "idle"

\* A call of one of the pipelines on a file, with fresh accumulators and,
\* for the encrypting ones, the key pairs.
PipeInit ==
    /\ pmode \in {"hchEh", "heh", "hch", "gen_hmac"}
    /\ src \in Files
    /\ facility_sec \in KeySecrets
    /\ researcher_sec \in KeySecrets
    /\ session_key = 0
    /\ header_bytes = <<>>
    /\ header_count = 0
    /\ pos = 0
    /\ nonces = <<>>
    /\ ef = <<>>
    /\ cf = <<>>
    /\ hash_original = NewHmac
    /\ hash_compressed = NewHmac
    /\ hash_encrypted = NewHmac
    /\ ret = [path |-> "", original |-> NoDigest, compressed |-> NoDigest,
              encrypted |-> NoDigest]
    /\ df = <<>>
    /\ hash_decrypted = NoDigest
    /\ error = "none"
    /\ yielded = "none"
    /\ ppc = "start"

\* The head of both encrypting pipelines: generate_header(keypair[0],
\* keypair[1]) with keypair = (facility_kp.sec, researcher_kp.pub), the files
\* are opened and the header is written.
ProtectStart ==
    /\ ppc = "start"
    /\ Encrypts(pmode)
    /\ \E skey \in SessionKeys :
        /\ session_key' = skey
        /\ header_bytes' = generate_header(facility_sec, PublicKey(researcher_sec), skey)
    /\ header_count' = header_count + 1
    /\ ef' = ef \o HeaderWrite(header_bytes')
    /\ ppc' = "loop"
    /\ UNCHANGED <<pmode, src, facility_sec, researcher_sec, pos, nonces, cf, hash_original,
                   hash_compressed, hash_encrypted, ret, df, hash_decrypted, error>>
    /\ UNCHANGED schedVars
    /\ UNCHANGED putVars
    /\ UNCHANGED userVars
    /\ UNCHANGED inlineVars
    /\ UNCHANGED yielded

\* The head of hash_compress_hash and of gen_hmac: the files are opened.
HashStart ==
    /\ ppc = "start"
    /\ ~Encrypts(pmode)
    /\ ppc' = "loop"
    /\ UNCHANGED <<pmode, src, facility_sec, researcher_sec, session_key, header_bytes,
                   header_count, pos, nonces, ef, cf, hash_original, hash_compressed,
                   hash_encrypted, ret, df, hash_decrypted, error>>
    /\ UNCHANGED schedVars
    /\ UNCHANGED putVars
    /\ UNCHANGED userVars
    /\ UNCHANGED inlineVars
    /\ UNCHANGED yielded

\* One iteration of `for chunk in chunk_stream` of an encrypting pipeline: the
\* chunk is hashed, (in hash_compress_hash_encrypt_hash) compressed and hashed
\* again, encrypted with a fresh nonce by _encrypt_segment, which writes the
\* segment, and the encrypted data is hashed. When cipher.encrypt raises,
\* nothing is written: an EncryptionError is yielded as ("error", message),
\* on which hash_encrypted.update raises TypeError; another exception leaves
\* _encrypt_segment and the pipeline as it is.
ProtectChunk ==
    /\ ppc = "loop"
    /\ Encrypts(pmode)
    /\ pos < NumChunks(src)
    /\ \E drawn \in Nonces, failure \in EncryptFailures :
        LET chunk          == ChunkAt(src, pos + 1)
            plain          == SegmentPlain(pmode, chunk)
            nonce          == SegmentNonce(drawn, nonces)
            encrypted_data == CipherEncrypt(session_key, nonce, plain)
        IN  /\ nonces' = Append(nonces, drawn)
            /\ hash_original' =
                   IF pmode = "hchEh" THEN HmacUpdate(hash_original, chunk) ELSE hash_original
            /\ hash_compressed' = HmacUpdate(hash_compressed, plain)
            /\ IF failure = "none"
               THEN /\ ef' = ef \o EncryptSegmentWrites(nonce, encrypted_data)
                    /\ yielded' = "segment"
                    /\ hash_encrypted' = HmacUpdate(hash_encrypted, encrypted_data)
                    /\ UNCHANGED <<error, ppc>>
               ELSE /\ ef' = ef \o FailedSegmentWrites(nonce)
                    /\ yielded' = IF failure = "EncryptionError" THEN "error" ELSE "none"
                    /\ UNCHANGED hash_encrypted
                    /\ error' = IF failure = "EncryptionError" THEN "TypeError"
                                ELSE "Exception"
                    /\ ppc' = "raised"
    /\ pos' = pos + 1
    /\ UNCHANGED <<pmode, src, facility_sec, researcher_sec, session_key, header_bytes,
                   header_count, cf, ret, df, hash_decrypted>>
    /\ UNCHANGED schedVars
    /\ UNCHANGED putVars
    /\ UNCHANGED userVars
    /\ UNCHANGED inlineVars

\* One iteration of the loop of hash_compress_hash (the chunk is hashed,
\* compressed, hashed again and written to compressed_file) or of gen_hmac
\* (the chunk is fed to hash_).
HashChunk ==
    /\ ppc = "loop"
    /\ ~Encrypts(pmode)
    /\ pos < NumChunks(src)
    /\ LET chunk == ChunkAt(src, pos + 1)
           plain == SegmentPlain(pmode, chunk)
       IN  /\ hash_original' =
                  IF pmode = "hch" THEN HmacUpdate(hash_original, chunk) ELSE hash_original
           /\ hash_compressed' = HmacUpdate(hash_compressed, plain)
           /\ cf' = IF pmode = "hch" THEN Append(cf, plain) ELSE cf
    /\ pos' = pos + 1
    /\ UNCHANGED <<pmode, src, facility_sec, researcher_sec, session_key, header_bytes,
                   header_count, nonces, ef, hash_encrypted, ret, df, hash_decrypted,
                   error, ppc>>
    /\ UNCHANGED schedVars
    /\ UNCHANGED putVars
    /\ UNCHANGED userVars
    /\ UNCHANGED inlineVars
    /\ UNCHANGED yielded

\* The stream is exhausted: the files are closed, the accumulators the
\* function was handed are finalized and the digests are returned, with a
\* path: encrypted_file from hash_compress_hash_encrypt_hash, file from
\* hash_encrypt_hash, compressed_file from hash_compress_hash.
ProtectReturn ==
    /\ ppc = "loop"
    /\ pos = NumChunks(src)
    /\ hash_original' =
           IF Compresses(pmode) THEN HmacFinalize(hash_original) ELSE hash_original
    /\ hash_compressed' = HmacFinalize(hash_compressed)
    /\ hash_encrypted' =
           IF Encrypts(pmode) THEN HmacFinalize(hash_encrypted) ELSE hash_encrypted
    /\ ret' = [path       |-> CASE pmode = "hchEh" -> "encrypted_file"
                                [] pmode = "heh" -> "file"
                                [] pmode = "hch" -> "compressed_file"
                                [] OTHER -> "",
               original   |-> IF Compresses(pmode) THEN Digest(hash_original) ELSE NoDigest,
               compressed |-> Digest(hash_compressed),
               encrypted  |-> IF Encrypts(pmode) THEN Digest(hash_encrypted) ELSE NoDigest]
    /\ ppc' = "protected"
    /\ UNCHANGED <<pmode, src, facility_sec, researcher_sec, session_key, header_bytes,
                   header_count, pos, nonces, ef, cf, df, hash_decrypted, error>>
    /\ UNCHANGED schedVars
    /\ UNCHANGED putVars
    /\ UNCHANGED userVars
    /\ UNCHANGED inlineVars
    /\ UNCHANGED yielded

\* try_decryption(encrypted_file=latest_path, keypair=(researcher_kp.sec,
\* facility_kp.pub)), which process_file calls after
\* hash_compress_hash_encrypt_hash: lib.decrypt writes the decrypted bytes;
\* then the HMAC is built from `key`, a name that try_decryption does not
\* have, and the call ends with that NameError.
TryDecryption ==
    /\ ppc = "protected"
    /\ pmode = "hchEh"
    /\ LET r == LibDecrypt(EfBytes, researcher_sec, PublicKey(facility_sec))
       IN  /\ df' = r.out
           /\ error' = IF r.ok THEN "NameError" ELSE "ValueError"
    /\ ppc' = "tried"
    /\ UNCHANGED <<pmode, src, facility_sec, researcher_sec, session_key, header_bytes,
                   header_count, pos, nonces, ef, cf, hash_original, hash_compressed,
                   hash_encrypted, ret, hash_decrypted>>
    /\ UNCHANGED schedVars
    /\ UNCHANGED putVars
    /\ UNCHANGED userVars
    /\ UNCHANGED inlineVars
    /\ UNCHANGED yielded

(***************************************************************************)
(* The processing loop of put of dp_cli.py.                                *)
(***************************************************************************)

\* What a path given to put is: a file (os.path.isfile), a directory
\* (os.path.isdir) whose tree holds no file, a directory whose tree holds a
\* file, or neither.
PathKinds == {"file", "dir", "dir_files", "other"}

\* process_file(file, temp_dir, sub_dir): after file_type(file) it calls
\* sys.exit(): nothing is compressed, hashed or encrypted, no key pair is
\* generated, and SystemExit is raised instead of a result being returned.
process_file(path) == [path |-> path, stages |-> <<>>, result |-> "SystemExit"]

\* process_folder(folder, temp_dir, sub_dir) on a tree without files: a dict
\* with an empty list, its subfolders' dicts aside.
process_folder(path) == [path |-> path, result |-> "folder"]

\* put is not running: the state of its loop while another part is studied.
PutIdle ==
    /\ config = "None"
    /\ username = FALSE
    /\ password = FALSE
    /\ project = FALSE
    /\ pathfile = "None"
    /\ user_info = "unset"
    /\ user_id = "unset"
    /\ dirs_created = "unset"
    /\ temp_dir = "none"
    /\ put_data = <<>>
    /\ sensitive = FALSE
    /\ keygen_fails = FALSE
    /\ path_idx = 0
    /\ upload_path = <<>>
    /\ processed = <<>>
    /\ put_pc = "idle"

\* What the --config option names: nothing (None), a path that does not
\* exist, a JSON file lacking one of username, password and project, or a
\* JSON file with the three.
Configs == {"None", "absent", "lacks_key", "complete"}

\* What the --pathfile option names: nothing (None), a path that does not
\* exist, a file without lines, or a file with one line, naming a file.
Pathfiles == {"None", "absent", "empty", "one_file"}

\* verify_user_credentials(config, username, password, project): the
\* exception it raises, or what it returns: the dict of the config file, the
\* tuple of the three options, or None (a config path that does not exist).
verify_user_credentials_anyfile(config_, username_, password_, project_) ==
    IF ~username_ /\ ~password_ /\ config_ = "None" THEN "DeliveryPortalException"
    ELSE IF config_ # "None"
         THEN (IF config_ = "absent" THEN "None" ELSE "dict")
         ELSE IF ~username_ \/ ~password_ THEN "DeliveryPortalException"
              ELSE IF ~project_ THEN "DeliveryPortalException"
                   ELSE "tuple"

verify_user_credentials(config_, username_, password_, project_) ==
    IF ~username_ /\ ~password_ /\ config_ = "None" THEN "DeliveryPortalException"
    ELSE IF config_ # "None"
         THEN (IF config_ = "absent" THEN "None"
               ELSE IF config_ = "lacks_key" THEN "DeliveryPortalException"
                    ELSE "dict")
         ELSE IF ~username_ \/ ~password_ THEN "DeliveryPortalException"
              ELSE IF ~project_ THEN "DeliveryPortalException"
                   ELSE "tuple"

\* check_access(login_info) on a dict: the user id, or the exception raised
\* for a wrong password or a denied project, for a role that may not put, or
\* for a user or database that is not found.
AccessOutcomes == {"id", "DeliveryPortalException", "DeliveryOptionException",
                   "CouchDBException"}

\* all_data(data_file): the paths listed in the file, or None when the file
\* does not exist.
all_data(data_file) ==
    CASE data_file = "absent" -> "None"
      [] data_file = "empty" -> <<>>
      [] OTHER -> <<"file">>

\* The directory create_directories fails at: none, the temporary root, or
\* one below it.
MkdirFailures == {"none", "root", "sub"}

\* create_directories(tdir, paths): True when every os.mkdir succeeded.
create_directories(failing) == IF failing = "none" THEN "True" ELSE "False"

\* put is called with its options.
PutInit ==
    /\ config \in Configs
    /\ username \in BOOLEAN
    /\ password \in BOOLEAN
    /\ project \in BOOLEAN
    /\ pathfile \in Pathfiles
    /\ user_info = "unset"
    /\ user_id = "unset"
    /\ dirs_created = "unset"
    /\ temp_dir = "none"
    /\ put_data \in UNION {[1..n -> PathKinds] : n \in 0..MaxPaths}
    /\ sensitive \in BOOLEAN
    /\ keygen_fails \in BOOLEAN
    /\ path_idx = 0
    /\ upload_path = <<>>
    /\ processed = <<>>
    /\ put_pc = "start"

\* user_info = verify_user_credentials(...).
PutVerify ==
    /\ put_pc = "start"
    /\ user_info' = verify_user_credentials(config, username, password, project)
    /\ put_pc' = IF user_info' = "DeliveryPortalException" THEN user_info' ELSE "access"
    /\ UNCHANGED <<config, username, password, project, pathfile, user_id, dirs_created,
                   temp_dir, put_data, sensitive, keygen_fails, path_idx, upload_path,
                   processed>>
    /\ UNCHANGED schedVars
    /\ UNCHANGED pipeVars
    /\ UNCHANGED userVars
    /\ UNCHANGED inlineVars
    /\ UNCHANGED yielded

\* user_id = check_access(login_info=user_info): login_info['username'] raises
\* TypeError on the tuple and on None; on the dict the access is checked.
PutCheckAccess ==
    /\ put_pc = "access"
    /\ \E outcome \in AccessOutcomes :
        user_id' = IF user_info = "dict" THEN outcome ELSE "TypeError"
    /\ put_pc' = IF user_id' = "id" THEN "data" ELSE user_id'
    /\ UNCHANGED <<config, username, password, project, pathfile, user_info, dirs_created,
                   temp_dir, put_data, sensitive, keygen_fails, path_idx, upload_path,
                   processed>>
    /\ UNCHANGED schedVars
    /\ UNCHANGED pipeVars
    /\ UNCHANGED userVars
    /\ UNCHANGED inlineVars
    /\ UNCHANGED yielded

\* The check for entered data: no data and no pathfile is an error; the
\* paths of the pathfile are added to data (None cannot be added to a
\* tuple); data still empty is an error.
PutCheckData ==
    /\ put_pc = "data"
    /\ IF put_data = <<>> /\ pathfile = "None"
       THEN put_pc' = "DeliveryPortalException" /\ UNCHANGED put_data
       ELSE IF pathfile = "None"
            THEN put_pc' = "dirs" /\ UNCHANGED put_data
            ELSE IF all_data(pathfile) = "None"
                 THEN put_pc' = "TypeError" /\ UNCHANGED put_data
                 ELSE /\ put_data' = put_data \o all_data(pathfile)
                      /\ put_pc' = IF put_data' = <<>> THEN "DeliveryPortalException"
                                   ELSE "dirs"
    /\ UNCHANGED <<config, username, password, project, pathfile, user_info, user_id,
                   dirs_created, temp_dir, sensitive, keygen_fails, path_idx, upload_path,
                   processed>>
    /\ UNCHANGED schedVars
    /\ UNCHANGED pipeVars
    /\ UNCHANGED userVars
    /\ UNCHANGED inlineVars
    /\ UNCHANGED yielded

\* dirs_created = create_directories(tdir=temp_dir, paths=data) and the
\* branch on it: when a directory could not be made and temp_dir exists, it
\* is removed (or the removal fails) and sys.exit is called; when temp_dir
\* does not exist, nothing is done and put goes on.
PutCreateDirectories ==
    /\ put_pc = "dirs"
    /\ \E failing \in MkdirFailures, exists \in BOOLEAN, removed \in BOOLEAN :
        /\ failing = "none" => exists
        /\ failing = "sub" => exists
        /\ dirs_created' = create_directories(failing)
        /\ IF dirs_created' = "True"
           THEN temp_dir' = "created" /\ put_pc' = "loop"
           ELSE IF exists
                THEN /\ temp_dir' = IF removed THEN "removed" ELSE "partial"
                     /\ put_pc' = "SystemExit"
                ELSE temp_dir' = "none" /\ put_pc' = "loop"
    /\ UNCHANGED <<config, username, password, project, pathfile, user_info, user_id,
                   put_data, sensitive, keygen_fails, path_idx, upload_path, processed>>
    /\ UNCHANGED schedVars
    /\ UNCHANGED pipeVars
    /\ UNCHANGED userVars
    /\ UNCHANGED inlineVars
    /\ UNCHANGED yielded

\* for path in data, os.path.isfile(path): process_file is called, and its
\* sys.exit() ends put before upload_path[path] is assigned.
PutFile ==
    /\ put_pc = "loop"
    /\ path_idx < Len(put_data)
    /\ put_data[path_idx + 1] = "file"
    /\ path_idx' = path_idx + 1
    /\ processed' = Append(processed, process_file(path_idx + 1))
    /\ put_pc' = processed'[Len(processed')].result
    /\ UNCHANGED <<config, username, password, project, pathfile, user_info, user_id,
                   dirs_created, temp_dir, put_data, sensitive, keygen_fails, upload_path>>
    /\ UNCHANGED schedVars
    /\ UNCHANGED pipeVars
    /\ UNCHANGED userVars
    /\ UNCHANGED inlineVars
    /\ UNCHANGED yielded

\* for path in data, os.path.isdir(path), no file in the tree: process_folder
\* returns and upload_path[path] is assigned.
PutFolder ==
    /\ put_pc = "loop"
    /\ path_idx < Len(put_data)
    /\ put_data[path_idx + 1] = "dir"
    /\ path_idx' = path_idx + 1
    /\ upload_path' = Append(upload_path, process_folder(path_idx + 1))
    /\ UNCHANGED <<config, username, password, project, pathfile, user_info, user_id,
                   dirs_created, temp_dir, put_data, sensitive, keygen_fails, processed, put_pc>>
    /\ UNCHANGED schedVars
    /\ UNCHANGED pipeVars
    /\ UNCHANGED userVars
    /\ UNCHANGED inlineVars
    /\ UNCHANGED yielded

\* for path in data, os.path.isdir(path), a file in the tree: process_folder
\* calls process_file(..., sensitive=sensitive), a keyword process_file does
\* not have: the call raises TypeError, which ends put.
PutFolderFiles ==
    /\ put_pc = "loop"
    /\ path_idx < Len(put_data)
    /\ put_data[path_idx + 1] = "dir_files"
    /\ path_idx' = path_idx + 1
    /\ put_pc' = "TypeError"
    /\ UNCHANGED <<config, username, password, project, pathfile, user_info, user_id,
                   dirs_created, temp_dir, put_data, sensitive, keygen_fails, upload_path, processed>>
    /\ UNCHANGED schedVars
    /\ UNCHANGED pipeVars
    /\ UNCHANGED userVars
    /\ UNCHANGED inlineVars
    /\ UNCHANGED yielded

\* for path in data, neither a file nor a directory: sys.exit(...).
PutUnknown ==
    /\ put_pc = "loop"
    /\ path_idx < Len(put_data)
    /\ put_data[path_idx + 1] = "other"
    /\ path_idx' = path_idx + 1
    /\ put_pc' = "SystemExit"
    /\ UNCHANGED <<config, username, password, project, pathfile, user_info, user_id,
                   dirs_created, temp_dir, put_data, sensitive, keygen_fails, upload_path, processed>>
    /\ UNCHANGED schedVars
    /\ UNCHANGED pipeVars
    /\ UNCHANGED userVars
    /\ UNCHANGED inlineVars
    /\ UNCHANGED yielded

\* The loop is over: print(upload_path).
PutPrint ==
    /\ put_pc = "loop"
    /\ path_idx = Len(put_data)
    /\ put_pc' = "printed"
    /\ UNCHANGED <<config, username, password, project, pathfile, user_info, user_id,
                   dirs_created, temp_dir, put_data, sensitive, keygen_fails, path_idx, upload_path, processed>>
    /\ UNCHANGED schedVars
    /\ UNCHANGED pipeVars
    /\ UNCHANGED userVars
    /\ UNCHANGED inlineVars
    /\ UNCHANGED yielded

(***************************************************************************)
(* The user commands of __main__.py.                                       *)
(***************************************************************************)

Emails == {"test.testsson@example.com", "other@example.com"}

\* The choices of --role.
Roles == {"Super Admin", "Unit Admin", "Unit Personnel", "Project Owner", "Researcher"}

Projects == {"test_project"}

\* What the backend answers to a request: it accepts it, or rejects it with
\* a message, on which the AccountManager raises an ApiResponseError.
Responses == {"ok", "rejected"}

\* The message of a rejecting backend.
Message == "Specifically passed message"

\* The json of the request AccountManager.add_user posts to USER_ADD: email
\* and role, and the project when there is one.
add_user_json(email_, role_, project_) ==
    {<<"email", email_>>, <<"role", role_>>}
        \cup (IF project_ = "None" THEN {} ELSE {<<"project", project_>>})

\* The except clause of a command: an API exception is logged and the
\* command exits with 1; without one the command returns.
ExitAlwaysZero(response) == "0"

ExitOf(response) == IF response = "ok" THEN "0" ELSE "1"

\* The operation delete_user invokes on the manager, by --self and the email.
DeleteOperation(self_, email_, is_invite_) ==
    IF self_ /\ email_ = "None" THEN <<[op |-> "delete_own_account"]>>
    ELSE IF email_ # "None" /\ ~self_
         THEN <<[op |-> "delete_user", email |-> email_, is_invite |-> is_invite_]>>
         ELSE <<>>

\* No command runs: the state of the user commands while another part is studied.
UserIdle ==
    /\ command = "none"
    /\ no_prompt = FALSE
    /\ email = "None"
    /\ role = "None"
    /\ add_project = "None"
    /\ self_flag = FALSE
    /\ is_invite = FALSE
    /\ asked = FALSE
    /\ answer = FALSE
    /\ invoked = <<>>
    /\ stderr = <<>>
    /\ exit_status = "none"

\* A command is called with the arguments click lets through: add_user,
\* activate_user and deactivate_user require the email, add_user the role.
UserInit ==
    /\ command \in {"add_user", "delete_user", "activate_user", "deactivate_user"}
    /\ no_prompt \in BOOLEAN
    /\ email \in Emails \cup (IF command = "delete_user" THEN {"None"} ELSE {})
    /\ role \in (IF command = "add_user" THEN Roles ELSE {"None"})
    /\ add_project \in (IF command = "add_user" THEN Projects \cup {"None"} ELSE {"None"})
    /\ self_flag \in (IF command = "delete_user" THEN BOOLEAN ELSE {FALSE})
    /\ is_invite \in (IF command = "delete_user" THEN BOOLEAN ELSE {FALSE})
    /\ asked = FALSE
    /\ answer = FALSE
    /\ invoked = <<>>
    /\ stderr = <<>>
    /\ exit_status = "none"

\* add_user: inviter.add_user(email, role, project, ...) posts the request;
\* a rejection is raised as ApiResponseError, logged, and ends in sys.exit(1).
AddUser ==
    /\ command = "add_user"
    /\ exit_status = "none"
    /\ \E response \in Responses :
        /\ invoked' = <<[op |-> "post", endpoint |-> "USER_ADD",
                         json |-> add_user_json(email, role, add_project),
                         response |-> response]>>
        /\ stderr' = IF response = "ok" THEN <<>> ELSE <<"Could not add user", Message>>
        /\ exit_status' = ExitOf(response)
    /\ UNCHANGED <<command, no_prompt, email, role, add_project, self_flag, is_invite,
                   asked, answer>>
    /\ UNCHANGED schedVars
    /\ UNCHANGED pipeVars
    /\ UNCHANGED putVars
    /\ UNCHANGED inlineVars
    /\ UNCHANGED yielded

\* delete_user: in --no-prompt mode proceed_deletion is True; otherwise the
\* two checks of the arguments end the command with sys.exit(0), or the user
\* is asked. With proceed_deletion the manager deletes the own account or
\* the account of the email; with both or neither given, sys.exit(1).
DeleteUser ==
    /\ command = "delete_user"
    /\ exit_status = "none"
    /\ \E reply \in BOOLEAN, response \in Responses :
        LET rejected_args == (is_invite /\ self_flag) \/ (~self_flag /\ email = "None")
            ask           == ~no_prompt /\ ~rejected_args
            proceed_deletion == IF no_prompt THEN TRUE ELSE (ask /\ reply)
            operation     == DeleteOperation(self_flag, email, is_invite)
        IN  /\ asked' = ask
            /\ answer' = (ask /\ reply)
            /\ IF ~no_prompt /\ rejected_args
               THEN /\ invoked' = <<>>
                    /\ stderr' = <<"argument error">>
                    /\ exit_status' = "0"
               ELSE IF ~proceed_deletion
                    THEN /\ invoked' = <<>>
                         /\ stderr' = <<>>
                         /\ exit_status' = "0"
                    ELSE IF operation = <<>>
                         THEN /\ invoked' = <<>>
                              /\ stderr' = <<"argument error">>
                              /\ exit_status' = "1"
                         ELSE /\ invoked' = operation
                              /\ stderr' = IF response = "ok" THEN <<>> ELSE <<Message>>
                              /\ exit_status' = ExitOf(response)
    /\ UNCHANGED <<command, no_prompt, email, role, add_project, self_flag, is_invite>>
    /\ UNCHANGED schedVars
    /\ UNCHANGED pipeVars
    /\ UNCHANGED putVars
    /\ UNCHANGED inlineVars
    /\ UNCHANGED yielded

\* activate_user / deactivate_user: in --no-prompt mode nothing is assigned
\* to proceed_activation (`pass`), and `if proceed_activation` raises
\* UnboundLocalError; otherwise the user is asked and, on yes,
\* manager.user_activation(email, action) is invoked.
UserActivation(action) ==
    /\ exit_status = "none"
    /\ \E reply \in BOOLEAN, response \in Responses :
        IF no_prompt
        THEN /\ asked' = FALSE
             /\ answer' = FALSE
             /\ invoked' = <<>>
             /\ stderr' = <<>>
             /\ exit_status' = "UnboundLocalError"
        ELSE /\ asked' = TRUE
             /\ answer' = reply
             /\ IF reply
                THEN /\ invoked' = <<[op |-> "user_activation", email |-> email,
                                      action |-> action]>>
                     /\ stderr' = IF response = "ok" THEN <<>> ELSE <<Message>>
                     /\ exit_status' = ExitOf(response)
                ELSE /\ invoked' = <<>>
                     /\ stderr' = <<>>
                     /\ exit_status' = "0"
    /\ UNCHANGED <<command, no_prompt, email, role, add_project, self_flag, is_invite>>
    /\ UNCHANGED schedVars
    /\ UNCHANGED pipeVars
    /\ UNCHANGED putVars
    /\ UNCHANGED inlineVars
    /\ UNCHANGED yielded

ActivateUser == command = "activate_user" /\ UserActivation("reactivate")

DeactivateUser == command = "deactivate_user" /\ UserActivation("deactivate")

(***************************************************************************)
(* The hash-and-compress loop in the body of process_file (lines 645-682).  *)
(***************************************************************************)

\* process_file is not in its loop.
InlineIdle ==
    /\ compressed_format = FALSE
    /\ is_compressed = FALSE
    /\ latest_path = ""

\* The statements before the loop: is_compressed is what file_type found,
\* latest_path = "", h_orig and h_comp are fresh (hash_original and
\* hash_compressed hold them).
InlineInit ==
    /\ pmode = "inline"
    /\ src \in Files
    /\ compressed_format \in BOOLEAN
    /\ is_compressed = compressed_format
    /\ latest_path = ""
    /\ facility_sec = 1
    /\ researcher_sec = 1
    /\ session_key = 0
    /\ header_bytes = <<>>
    /\ header_count = 0
    /\ pos = 0
    /\ nonces = <<>>
    /\ ef = <<>>
    /\ cf = <<>>
    /\ hash_original = NewHmac
    /\ hash_compressed = NewHmac
    /\ hash_encrypted = NewHmac
    /\ ret = [path |-> "", original |-> NoDigest, compressed |-> NoDigest,
              encrypted |-> NoDigest]
    /\ df = <<>>
    /\ hash_decrypted = NoDigest
    /\ error = "none"
    /\ yielded = "none"
    /\ ppc = "start"

\* with open(file, 'rb') as f: the chunk stream is made.
InlineOpen ==
    /\ pmode = "inline"
    /\ ppc = "start"
    /\ ppc' = "loop"
    /\ UNCHANGED <<pmode, src, facility_sec, researcher_sec, session_key, header_bytes,
                   header_count, pos, nonces, ef, cf, hash_original, hash_compressed,
                   hash_encrypted, ret, df, hash_decrypted, error>>
    /\ UNCHANGED inlineVars
    /\ UNCHANGED yielded
    /\ UNCHANGED schedVars
    /\ UNCHANGED putVars
    /\ UNCHANGED userVars

\* One iteration of `for chunk in chunk_stream`: h_orig is fed the chunk;
\* when is_compressed is false the chunk is compressed, f"{file}.gzip" is
\* opened with mode 'wb' (emptied) and the compressed chunk is fed to h_comp
\* and written, then is_compressed = True and latest_path = cf.name; when
\* is_compressed is true, latest_path = file.
InlineChunk ==
    /\ pmode = "inline"
    /\ ppc = "loop"
    /\ pos < NumChunks(src)
    /\ LET chunk == ChunkAt(src, pos + 1)
       IN  /\ hash_original' = HmacUpdate(hash_original, chunk)
           /\ IF ~is_compressed
              THEN /\ cf' = <<compress_chunk(chunk)>>
                   /\ hash_compressed' = HmacUpdate(hash_compressed, compress_chunk(chunk))
                   /\ is_compressed' = TRUE
                   /\ latest_path' = "file.gzip"
              ELSE /\ latest_path' = "file"
                   /\ UNCHANGED <<cf, hash_compressed, is_compressed>>
    /\ pos' = pos + 1
    /\ UNCHANGED <<pmode, src, facility_sec, researcher_sec, session_key, header_bytes,
                   header_count, nonces, ef, hash_encrypted, ret, df, hash_decrypted,
                   error, ppc>>
    /\ UNCHANGED compressed_format
    /\ UNCHANGED yielded
    /\ UNCHANGED schedVars
    /\ UNCHANGED putVars
    /\ UNCHANGED userVars

\* After the loop: hash_original = h_orig.finalize().hex() and
\* hash_compressed = h_comp.finalize().hex().
InlineFinalize ==
    /\ pmode = "inline"
    /\ ppc = "loop"
    /\ pos = NumChunks(src)
    /\ hash_original' = HmacFinalize(hash_original)
    /\ hash_compressed' = HmacFinalize(hash_compressed)
    /\ ret' = [path       |-> latest_path,
               original   |-> Digest(hash_original),
               compressed |-> Digest(hash_compressed),
               encrypted  |-> NoDigest]
    /\ ppc' = "protected"
    /\ UNCHANGED <<pmode, src, facility_sec, researcher_sec, session_key, header_bytes,
                   header_count, pos, nonces, ef, cf, hash_encrypted, df, hash_decrypted,
                   error>>
    /\ UNCHANGED inlineVars
    /\ UNCHANGED yielded
    /\ UNCHANGED schedVars
    /\ UNCHANGED putVars
    /\ UNCHANGED userVars

(***************************************************************************)
(* The specifications.                                                     *)
(***************************************************************************)
SchedNext ==
    \/ SubmitFirst
    \/ FirstDone
    \/ LoopExit
    \/ Wait
    \/ CollectResult
    \/ CollectBroken
    \/ CollectRaise
    \/ CollectDone
    \/ SubmitNext
    \/ ScheduleDone
    \/ DownloadEnds
    \/ RequestCancel

\* get_data.
Init == SchedInit /\ PipeIdle /\ PutIdle /\ UserIdle /\ InlineIdle

Spec == Init /\ [][SchedNext]_vars

PipeNext ==
    \/ ProtectStart
    \/ HashStart
    \/ ProtectChunk
    \/ HashChunk
    \/ ProtectReturn
    \/ TryDecryption

\* One file through one of the pipelines.
PipeSpecInit == PipeInit /\ SchedIdle /\ PutIdle /\ UserIdle /\ InlineIdle

PipeSpec == PipeSpecInit /\ [][PipeNext]_vars

PutNext ==
    \/ PutVerify
    \/ PutCheckAccess
    \/ PutCheckData
    \/ PutCreateDirectories
    \/ PutFile
    \/ PutFolder
    \/ PutFolderFiles
    \/ PutUnknown
    \/ PutPrint

\* put.
PutSpecInit == PutInit /\ SchedIdle /\ PipeIdle /\ UserIdle /\ InlineIdle

PutSpec == PutSpecInit /\ [][PutNext]_vars

UserNext ==
    \/ AddUser
    \/ DeleteUser
    \/ ActivateUser
    \/ DeactivateUser

\* One run of a `dds user` command.
UserSpecInit == UserInit /\ SchedIdle /\ PipeIdle /\ PutIdle /\ InlineIdle

UserSpec == UserSpecInit /\ [][UserNext]_vars

InlineNext ==
    \/ InlineOpen
    \/ InlineChunk
    \/ InlineFinalize

\* The hash-and-compress loop of process_file on one file.
InlineSpecInit == InlineInit /\ SchedIdle /\ PutIdle /\ UserIdle

InlineSpec == InlineSpecInit /\ [][InlineNext]_vars

(***************************************************************************)
(* Properties of get_data's scheduling loop (under Spec).                  *)
(***************************************************************************)

\* The files submitted to the executor so far.
Admitted == {submitted[j] : j \in 1..Len(submitted)}

\* A future whose result was False has been handled by the coordinator.
FailureObserved ==
    \E f \in 1..Len(fut_state) : fut_state[f] = "fail" /\ f \notin Outstanding

\* C1: the number of outstanding downloads (the entries of download_threads)
\* is never more than the ceiling num_threads.
C1_ConcurrencyBound == Cardinality(download_threads) <= num_threads

\* C1's case: a round has admitted replacements and the ceiling is reached.
C1_AtCeiling ==
    /\ pc = "wait"
    /\ num_threads >= 2
    /\ Len(submitted) > num_threads
    /\ Cardinality(download_threads) = num_threads

\* C2: absent break-on-fail, with at least num_threads files, every file of the
\* work list has been admitted when the scheduling loop ends, whatever the
\* downloads' outcomes (True, False or BrokenExecutor).
C2_AllAdmitted ==
    (pc = "done" /\ ~break_on_fail /\ Len(data) >= num_threads)
        => \A i \in 1..Len(data) : data[i] \in Admitted

\* C3: with break-on-fail and concurrency 1, files [A, B, C] where A succeeds
\* and B fails: once B's failure has been observed, C is not admitted.
C3_BreakOnFailStopsAdmission ==
    (/\ break_on_fail
     /\ num_threads = 1
     /\ Len(data) = 3
     /\ Len(fut_state) >= 2
     /\ fut_state[1] = "ok"
     /\ fut_state[2] = "fail"
     /\ 2 \notin Outstanding)
        => data[3] \notin Admitted

\* C4: whenever unadmitted files remain, after each admission step of the
\* coordinator exactly num_threads downloads are outstanding.
C4_NeverStarved ==
    (pc = "wait" /\ iterator < Len(data))
        => Cardinality(download_threads) = num_threads

\* C5: a per-file error never unwinds the scheduler: the loop is not left by
\* an exception, it ends with every future collected and, absent
\* break-on-fail, with every file admitted.
C5_ErrorsStayPerFile ==
    /\ pc # "raised"
    /\ pc = "done" =>
        /\ download_threads = {}
        /\ ~break_on_fail => Len(submitted) = Len(data)

\* C6: when break-on-fail is set and a file has failed, no new file is
\* admitted, and the loop ends with every submitted future collected.
C6_BreakOnFailDrains ==
    /\ [][(break_on_fail /\ FailureObserved) => submitted' = submitted]_vars
    /\ [](pc = "done" => download_threads = {})

\* C7: no file is submitted twice, and no file has two outstanding futures.
C7_ConsumedOnce ==
    /\ \A i, j \in 1..Len(submitted) : submitted[i] = submitted[j] => i = j
    /\ \A a, b \in download_threads : a[2] = b[2] => a = b

\* C7's case: a run over several files, with parallel downloads, has ended.
C7_AllConsumed ==
    /\ pc = "done"
    /\ num_threads >= 2
    /\ Len(data) >= 3
    /\ Len(submitted) = Len(data)

(***************************************************************************)
(* Properties of the encrypting pipelines (under PipeSpec).                *)
(***************************************************************************)

\* C8: restoring the artifact hash_compress_hash_encrypt_hash produced, with
\* the counterpart keys, reproduces the file byte for byte, and the checksum
\* recomputed over the restored bytes is the original checksum recorded.
C8_RoundTrip ==
    ppc = "tried" =>
        /\ error = "none"
        /\ df = src
        /\ hash_decrypted = ret.original

\* C9: in both encrypting pipelines the header is generated and written once
\* per file, and its write is the first write to the encrypted file.
C9_HeaderOnceFirst ==
    /\ ppc = "start" => (ef = <<>> /\ header_count = 0)
    /\ (ppc # "start" /\ Encrypts(pmode)) =>
        /\ header_count = 1
        /\ Len(ef) >= 1
        /\ ef[1] = [kind |-> "header", bytes |-> header_bytes]
        /\ \A i \in 2..Len(ef) : ef[i].kind # "header"

\* C9's case: a file of several chunks went through hash_encrypt_hash.
C9_ManyChunksDone == ppc = "protected" /\ pmode = "heh" /\ pos >= 2

\* C10: after the header, the i-th segment written is the nonce of the i-th
\* chunk read, immediately followed by that chunk's ciphertext and tag; no
\* segment is skipped, duplicated or interleaved.
C10_SegmentsInOrder ==
    (ppc \in {"loop", "protected", "tried"} /\ Encrypts(pmode)) =>
        /\ Len(nonces) = pos
        /\ Len(ef) = 1 + 2 * pos
        /\ ppc # "loop" => pos = NumChunks(src)
        /\ \A i \in 1..pos :
            /\ ef[2 * i] = [kind |-> "nonce", bytes |-> <<nonces[i]>>]
            /\ ef[2 * i + 1] =
                   [kind |-> "data",
                    bytes |-> CipherEncrypt(session_key, nonces[i],
                                            SegmentPlain(pmode, ChunkAt(src, i)))]

\* C10's case: a file of several chunks went through
\* hash_compress_hash_encrypt_hash.
C10_ManySegmentsWritten == ppc = "protected" /\ pmode = "hchEh" /\ pos >= 2

\* The byte stream of the compressed stage up to the n-th chunk of the
\* source: what the loop compressed (or, where nothing is compressed, read).
CompressedStage(n) == Flatten([i \in 1..n |-> SegmentPlain(pmode, ChunkAt(src, i))])

\* C11: an original-stage or compressed-stage accumulator is fed the chunks of
\* its stage in order and once each, and it is finalized only when it has
\* been fed the whole stream: the original one every source chunk, the
\* compressed one every compressed chunk (in hash_compress_hash, the bytes
\* written to compressed_file).
C11_FinalizedAfterWholeStream ==
    /\ hash_original.fed = (IF Compresses(pmode) THEN SubSeq(src, 1, Min(pos * ChunkSize, Len(src))) ELSE <<>>)
    /\ hash_compressed.fed = CompressedStage(pos)
    /\ pmode = "hch" => hash_compressed.fed = CfBytes
    /\ hash_original.finalized =>
        (pos = NumChunks(src) /\ hash_original.fed = src)
    /\ hash_compressed.finalized =>
        (pos = NumChunks(src) /\ hash_compressed.fed = CompressedStage(NumChunks(src)))

\* C11's case: hash_compress_hash returned the digests of a file of several
\* chunks.
C11_SeveralChunksHashed ==
    ppc = "protected" /\ pmode = "hch" /\ pos >= 2 /\ hash_original.finalized

\* C12: the encrypted-stage checksum returned for a file is the checksum of
\* the bytes written to the encrypted file: the header, then each segment's
\* nonce, ciphertext and tag.
C12_EncryptedChecksumOfArtifact ==
    (ppc = "protected" /\ Encrypts(pmode)) => ret.encrypted = <<HmacKey, EfBytes>>

C14_FixedSegmentSize ==
    (ppc # "start" /\ Encrypts(pmode)) =>
        \A i \in 1..pos :
            LET n == Len(SegmentPlain(pmode, ChunkAt(src, i)))
            IN  /\ n <= ChunkSize
                /\ i < NumChunks(src) => n = ChunkSize

\* C17: when a segment fails authentication during the restore, nothing of
\* the file is left in the decrypted output.
C17_NoPartialOutput ==
    (ppc = "tried" /\ error = "ValueError") => df = <<>>

C15_CompressThenEncrypt ==
    \A i \in 1..Len(processed) :
        processed[i].stages =
            (IF sensitive THEN <<"compress", "encrypt">> ELSE <<"compress">>)

\* C16: when key generation fails in a sensitive delivery, process_file
\* returns a FAILED result for the file, which put records, and the run goes
\* on with the remaining paths.
C16_KeygenFailurePerFile ==
    (sensitive /\ keygen_fails) =>
        /\ \A i \in 1..Len(processed) :
            /\ processed[i].result = "FAILED"
            /\ \E j \in 1..Len(upload_path) : upload_path[j].path = processed[i].path
        /\ Len(processed) > 0 => put_pc \in {"loop", "printed"}

\* C19: once cancellation has been requested, the scheduler admits no
\* further file.
C19_NoAdmissionAfterCancel ==
    [][cancel_requested => submitted' = submitted]_vars

\* C20: the coordinator never stays waiting while an outstanding download
\* has completed, whichever was submitted first, and what it collects has
\* completed.
C20_FirstCompletedFirst ==
    /\ (pc = "wait" /\ \E f \in Outstanding : fut_state[f] # "running") => ENABLED Wait
    /\ pc = "collect" => \A f \in ddone : fut_state[f] # "running"

\* C20's case: a download is collected while one submitted before it is
\* still running.
C20_LaterCollectedFirst ==
    /\ pc = "collect"
    /\ \E f \in ddone : \E g \in Outstanding : g < f /\ fut_state[g] = "running"

\* The credentials are missing: nothing at all, or no config file and a
\* username, password or project missing, or a config file lacking a key.
CredentialsMissing ==
    \/ config = "None" /\ (~username \/ ~password \/ ~project)
    \/ config = "lacks_key"

\* No data is given: no --data and no --pathfile.
NoDataGiven == put_data = <<>> /\ pathfile = "None"

\* C21: with credentials missing or no data given, put gets no further than
\* the checks: no temporary directory is made and no path is processed; and
\* no path is ever processed unless verify_user_credentials and check_access
\* have both succeeded.
C21_ConfigErrorBeforeWork ==
    /\ (put_pc # "idle" /\ (CredentialsMissing \/ NoDataGiven)) =>
        /\ put_pc \notin {"dirs", "loop", "printed"}
        /\ temp_dir = "none" /\ dirs_created = "unset"
        /\ path_idx = 0 /\ processed = <<>> /\ upload_path = <<>>
    /\ (path_idx > 0 \/ temp_dir # "none") =>
        (user_info \in {"dict", "tuple"} /\ user_id = "id")

\* C21's cases: put has ended with the error for missing credentials, and
\* with the one for missing data.
C21_RaisedBeforeWork ==
    /\ put_pc = "DeliveryPortalException"
    /\ \/ CredentialsMissing /\ user_info = "DeliveryPortalException"
       \/ NoDataGiven /\ user_id = "id"

\* C25: every call of process_file ends by returning a FAILED result or a
\* complete record.
C25_ReturnsResultOrFailed ==
    \A i \in 1..Len(processed) : processed[i].result \in {"FAILED", "record"}

\* C27: when create_directories has failed, put processes no path.
C27_NoProcessingWithoutDirectories ==
    dirs_created = "False" => (path_idx = 0 /\ processed = <<>> /\ upload_path = <<>>)

C29_DeleteOnlyWhenValid ==
    command = "delete_user" =>
        /\ (self_flag /\ is_invite) => invoked = <<>>
        /\ (~self_flag /\ email = "None") => invoked = <<>>
        /\ Len(invoked) <= 1
        /\ (~no_prompt /\ invoked # <<>>) => (asked /\ answer)

\* C30: with --no-prompt, activate_user and deactivate_user invoke the
\* activation or deactivation without asking; without it they invoke it
\* exactly when the user confirms.
C30_ActivationFollowsPrompt ==
    (command \in {"activate_user", "deactivate_user"} /\ exit_status # "none") =>
        /\ no_prompt =>
            /\ ~asked
            /\ invoked = <<[op |-> "user_activation", email |-> email,
                            action |-> IF command = "activate_user" THEN "reactivate"
                                       ELSE "deactivate"]>>
        /\ ~no_prompt => (asked /\ (invoked # <<>> <=> answer))

\* C28: the scheduling loop ends with no outstanding future and with the
\* summary progress advanced once per file of the work list.
C28_AdvancedOncePerFile ==
    pc = "done" => (download_threads = {} /\ advanced = Len(data))

\* C24: the path an encrypting pipeline returns (process_file's latest_path)
\* is the path of the encrypted file it wrote.
C24_FinalPathIsEncryptedFile ==
    (ppc \in {"protected", "tried"} /\ Encrypts(pmode)) => ret.path = "encrypted_file"

\* C23: for a source file that is not in a compressed format, at the end of
\* process_file's loop the compressed file holds the compression of every
\* chunk of the source, in order, and the compressed checksum covers it.
C23_AllChunksCompressed ==
    (pmode = "inline" /\ ppc = "protected" /\ ~compressed_format) =>
        LET all == Flatten([i \in 1..NumChunks(src) |-> compress_chunk(ChunkAt(src, i))])
        IN  CfBytes = all /\ ret.compressed = <<HmacKey, all>>

\* C26 as stated: when the encryption of a segment fails, nothing is written
\* to the output by that call, and the failure is yielded as an error value,
\* not as a segment.
C26_FailureYieldsErrorValue ==
    [][(ppc = "loop" /\ ppc' = "raised") =>
          (ef' = ef /\ hash_encrypted' = hash_encrypted /\ yielded' = "error")]_vars

=============================================================================
